---- MODULE Spec2Model ----
(***************************************************************************)
(* Profile input pipeline of the XSS teaching demo: normalize, validate,   *)
(* sanitize, escape; the client submit handler and the server endpoint     *)
(* POST /api/profile that run it.                                          *)
(*                                                                         *)
(* A JavaScript string is a sequence of one-character strings.  A comment  *)
(* (the field that may carry HTML) is a sequence of lexemes: a piece of     *)
(* text (one character, or a run of characters none of which is white      *)
(* space or special to HTML or JSON), an opening tag with its attributes,  *)
(* or a closing tag; its length is the number of characters the lexemes    *)
(* spell.                                                                  *)
(***************************************************************************)
EXTENDS Integers, Sequences, FiniteSets, TLC

VARIABLES
    pc, fn, arg, ret,                   \* a helper called on its own: "call" before, "return"
                                        \* after; a handler: what ran last, on what, its result
    rawName, rawEmail, rawComment,      \* the form's fields ($("#name").value, ...)
    errName, errEmail, errComment,      \* textContent of the three error slots
    safePreview, escapedPreview,        \* the two preview zones
    profileStore, draftStore,           \* localStorage "profile", sessionStorage "draftComment"
    request, response,                  \* the fetch in flight and the answer on its way back
    clientSanitized, serverSanitized,   \* arguments the two sanitizers were called with
    storageDump                         \* what the storage panel shows

pureVars == <<pc, fn, arg, ret>>
formVars == <<rawName, rawEmail, rawComment>>
domVars == <<errName, errEmail, errComment, safePreview, escapedPreview>>
storeVars == <<profileStore, draftStore>>
netVars == <<request, response>>
logVars == <<clientSanitized, serverSanitized>>
handlerVars == <<formVars, domVars, storeVars, netVars, logVars, storageDump>>
vars == <<pureVars, handlerVars>>

(***************************************************************************)
(* Bounds of the model.                                                    *)
(***************************************************************************)
MaxLen == 4          \* longest string enumerated exhaustively for the text helpers
MaxEmailLen == 6     \* longest e-mail enumerated exhaustively
MaxTokens == 3       \* longest comment (in lexemes) enumerated exhaustively
MaxNumber == 11      \* largest number passed where a string is expected

(***************************************************************************)
(* Characters.                                                             *)
(***************************************************************************)
AsciiUpperSeq ==
    <<"A","B","C","D","E","F","G","H","I","J","K","L","M",
      "N","O","P","Q","R","S","T","U","V","W","X","Y","Z">>
AsciiLowerSeq ==
    <<"a","b","c","d","e","f","g","h","i","j","k","l","m",
      "n","o","p","q","r","s","t","u","v","w","x","y","z">>
AccentUpperSeq == <<"Á","É","Í","Ó","Ú","Ü","Ñ">>
AccentLowerSeq == <<"á","é","í","ó","ú","ü","ñ">>
UpperSeq == AsciiUpperSeq \o AccentUpperSeq
LowerSeq == AsciiLowerSeq \o AccentLowerSeq
DigitSeq == <<"0","1","2","3","4","5","6","7","8","9">>

Range(f) == { f[i] : i \in DOMAIN f }

\* \s of a JavaScript regular expression and the characters trim() removes
\* (the same set in ECMAScript); the model carries the ASCII ones.
WhiteSpace == {" ", "\t", "\n", "\r", "\f"}

\* String.prototype.toLowerCase, character by character.
LowerChar(c) ==
    IF \E i \in DOMAIN UpperSeq : UpperSeq[i] = c
    THEN LowerSeq[CHOOSE i \in DOMAIN UpperSeq : UpperSeq[i] = c]
    ELSE c

toLowerCase(s) == [i \in DOMAIN s |-> LowerChar(s[i])]

(***************************************************************************)
(* JavaScript values handed to the helpers: a string, null, undefined or a *)
(* number.  String(v) is the coercion the helpers start with.              *)
(***************************************************************************)
Str(s) == [t |-> "string", s |-> s, n |-> 0]
Num(n) == [t |-> "number", s |-> <<>>, n |-> n]
Null == [t |-> "null", s |-> <<>>, n |-> 0]
Undefined == [t |-> "undefined", s |-> <<>>, n |-> 0]

RECURSIVE Decimal(_)
Decimal(n) ==
    IF n < 10 THEN <<DigitSeq[n + 1]>>
    ELSE Decimal(n \div 10) \o <<DigitSeq[(n % 10) + 1]>>

String(v) ==
    CASE v.t = "string" -> v.s
      [] v.t = "null" -> <<"n","u","l","l">>
      [] v.t = "undefined" -> <<"u","n","d","e","f","i","n","e","d">>
      [] v.t = "number" -> Decimal(v.n)

\* a ?? b
Coalesce(a, b) == IF a.t \in {"null", "undefined"} THEN b ELSE a

(***************************************************************************)
(* cleanText: String(str).trim().replace(/\s+/g, " ")                      *)
(***************************************************************************)
RECURSIVE TrimStart(_)
TrimStart(s) ==
    IF s = <<>> \/ Head(s) \notin WhiteSpace THEN s ELSE TrimStart(Tail(s))

RECURSIVE TrimEnd(_)
TrimEnd(s) ==
    IF s = <<>> \/ s[Len(s)] \notin WhiteSpace THEN s
    ELSE TrimEnd(SubSeq(s, 1, Len(s) - 1))

trim(s) == TrimEnd(TrimStart(s))

\* s.replace(/\s+/g, " "): every maximal run of white space becomes one space.
RECURSIVE ReplaceWsRuns(_)
ReplaceWsRuns(s) ==
    IF s = <<>> THEN <<>>
    ELSE IF Head(s) \in WhiteSpace
         THEN <<" ">> \o ReplaceWsRuns(TrimStart(Tail(s)))
         ELSE <<Head(s)>> \o ReplaceWsRuns(Tail(s))

\* a plausible slip: the collapse without the trim
cleanText_NoTrim(str) == ReplaceWsRuns(String(str))

cleanText(str) == ReplaceWsRuns(trim(String(str)))

\* The second cleanText of the client bundle calls (str).trim() without the
\* String() coercion: null and undefined have no property trim, a number has
\* no method trim, so the call throws a TypeError.
cleanTextNoCoercion(str) ==
    IF str.t = "string"
    THEN [threw |-> FALSE, value |-> ReplaceWsRuns(trim(str.s))]
    ELSE [threw |-> TRUE, value |-> <<>>]

(***************************************************************************)
(* escapeHtml / escaparHtml: five replaceAll passes, ampersand first.      *)
(***************************************************************************)
\* s.replaceAll(from, to) for a one-character pattern: every occurrence, left
\* to right, in one pass (the replacement text is not searched again)
RECURSIVE ReplaceRange(_, _, _, _, _)
ReplaceRange(s, from, to, lo, hi) ==
    IF lo > hi THEN <<>>
    ELSE IF lo = hi THEN (IF s[lo] = from THEN to ELSE <<s[lo]>>)
    ELSE LET mid == (lo + hi) \div 2
         IN  ReplaceRange(s, from, to, lo, mid) \o ReplaceRange(s, from, to, mid + 1, hi)

replaceAll(s, from, to) == ReplaceRange(s, from, to, 1, Len(s))

EntAmp == <<"&","a","m","p",";">>
EntLt == <<"&","l","t",";">>
EntGt == <<"&","g","t",";">>
EntQuot == <<"&","q","u","o","t",";">>
EntApos == <<"&","#","0","3","9",";">>

\* a plausible slip: the ampersand pass last, which escapes the entities again
escapeHtml_AmpLast(str) ==
    replaceAll(
      replaceAll(
        replaceAll(
          replaceAll(
            replaceAll(String(str), "<", EntLt),
            ">", EntGt),
          "\"", EntQuot),
        "'", EntApos),
      "&", EntAmp)

\* a plausible slip: the escape forgotten, the text returned as it is
escapeHtml_Forgotten(str) == String(str)

escapeHtml(str) ==
    replaceAll(
      replaceAll(
        replaceAll(
          replaceAll(
            replaceAll(String(str), "&", EntAmp),
            "<", EntLt),
          ">", EntGt),
        "\"", EntQuot),
      "'", EntApos)

escaparHtml(str) ==
    replaceAll(
      replaceAll(
        replaceAll(
          replaceAll(
            replaceAll(String(str), "&", EntAmp),
            "<", EntLt),
          ">", EntGt),
        "\"", EntQuot),
      "'", EntApos)

(***************************************************************************)
(* Regular expressions.  Both patterns of the program are anchored (^...$) *)
(* sequences of quantified character classes; test() succeeds when the     *)
(* items can consume the whole string, trying every split.                 *)
(***************************************************************************)
Item(neg, set, min, max, inf) ==
    [neg |-> neg, set |-> set, min |-> min, max |-> max, inf |-> inf]

InClass(item, c) == (c \in item.set) # item.neg

RECURSIVE MatchFrom(_, _, _, _)
MatchFrom(re, s, k, p) ==
    IF k > Len(re) THEN p = Len(s) + 1
    ELSE LET left == Len(s) - p + 1
             most == IF re[k].inf \/ re[k].max > left THEN left ELSE re[k].max
         IN  \E n \in re[k].min .. most :
                /\ \A q \in p .. (p + n - 1) : InClass(re[k], s[q])
                /\ MatchFrom(re, s, k + 1, p + n)

RegexTest(re, s) == MatchFrom(re, s, 1, 1)

NameMin == 2
NameMax == 50

NameLetters == Range(AsciiUpperSeq) \cup Range(AsciiLowerSeq)
                 \cup Range(AccentUpperSeq) \cup Range(AccentLowerSeq)

\* a plausible slip: {1,50} instead of {2,50}
nameRegex_Min1 == <<Item(FALSE, NameLetters \cup WhiteSpace, 1, NameMax, FALSE)>>

\* /^[A-Za-zÁÉÍÓÚÜÑáéíóúüñ\s]{2,50}$/
nameRegex == <<Item(FALSE, NameLetters \cup WhiteSpace, NameMin, NameMax, FALSE)>>

NotSpaceNorAt(min) == Item(TRUE, WhiteSpace \cup {"@"}, min, 0, TRUE)
Literal(c) == Item(FALSE, {c}, 1, 1, FALSE)

\* a plausible slip: {1,} instead of {2,} for the extension
emailRegex_Ext1 ==
    <<NotSpaceNorAt(1), Literal("@"), NotSpaceNorAt(1), Literal("."), NotSpaceNorAt(1)>>

\* /^[^\s@]+@[^\s@]+\.[^\s@]{2,}$/
emailRegex ==
    <<NotSpaceNorAt(1), Literal("@"), NotSpaceNorAt(1), Literal("."), NotSpaceNorAt(2)>>

(***************************************************************************)
(* Comments: sequences of lexemes.                                         *)
(***************************************************************************)
Chr(c) == [k |-> "chr", c |-> c, tag |-> "", attrs |-> {}]
Open(tag, attrs) == [k |-> "open", c |-> "", tag |-> tag, attrs |-> attrs]
Close(tag) == [k |-> "close", c |-> "", tag |-> tag, attrs |-> {}]

\* name="scheme:rest" (a URL without a scheme has scheme "")
Attr(name, scheme, rest) == [name |-> name, scheme |-> scheme, rest |-> rest]

Text(s) == [i \in DOMAIN s |-> Chr(s[i])]

\* characters of  name="value"  with its leading space
AttrLen(a) ==
    Len(a.name) + 4 + Len(a.rest) + (IF a.scheme = "" THEN 0 ELSE Len(a.scheme) + 1)

RECURSIVE AttrsLen(_)
AttrsLen(S) ==
    IF S = {} THEN 0
    ELSE LET x == CHOOSE y \in S : TRUE IN AttrLen(x) + AttrsLen(S \ {x})

\* characters a lexeme spells: x, <tag attrs>, </tag>
LexLen(t) ==
    CASE t.k = "chr" -> Len(t.c)
      [] t.k = "open" -> Len(t.tag) + 2 + AttrsLen(t.attrs)
      [] t.k = "close" -> Len(t.tag) + 3

\* the .length of a comment
RECURSIVE length(_)
length(c) == IF c = <<>> THEN 0 ELSE LexLen(Head(c)) + length(Tail(c))

\* String(raw ?? "") for the comment field: a string stays as it is, a number
\* becomes the text of its digits.
CommentString(v) == IF v.t = "string" THEN v.s ELSE Text(String(v))

(***************************************************************************)
(* Client validators.                                                      *)
(***************************************************************************)
Result(ok, value, msg) == [ok |-> ok, value |-> value, msg |-> msg]

\* a plausible slip: the pattern branch returns without its message
validateName_NoMsg(raw) ==
    LET value == cleanText(raw)
    IN  IF value = <<>> THEN Result(FALSE, value, "El nombre es obligatorio.")
        ELSE IF ~RegexTest(nameRegex, value) THEN Result(FALSE, value, "")
        ELSE Result(TRUE, value, "")

\* a plausible slip: the pattern is tested on the raw text, before it is cleaned
validateName_RawTest(raw) ==
    LET value == cleanText(raw)
    IN  IF value = <<>> THEN Result(FALSE, value, "El nombre es obligatorio.")
        ELSE IF ~RegexTest(nameRegex, String(raw))
             THEN Result(FALSE, value, "Solo letras y espacios (2-50).")
        ELSE Result(TRUE, value, "")

validateName(raw) ==
    LET value == cleanText(raw)
    IN  IF value = <<>> THEN Result(FALSE, value, "El nombre es obligatorio.")
        ELSE IF ~RegexTest(nameRegex, value)
             THEN Result(FALSE, value, "Solo letras y espacios (2-50).")
        ELSE Result(TRUE, value, "")

validateEmail(raw) ==
    LET value == toLowerCase(cleanText(raw))
    IN  IF value = <<>> THEN Result(FALSE, value, "El email es obligatorio.")
        ELSE IF ~RegexTest(emailRegex, value) THEN Result(FALSE, value, "Email no válido.")
        ELSE Result(TRUE, value, "")

CommentMax == 500

\* a plausible slip: >= instead of >
validateComment_Geq(raw) ==
    LET value == CommentString(Coalesce(raw, Str(<<>>)))
    IN  IF length(value) >= CommentMax
        THEN Result(FALSE, value, "Máximo 500 caracteres.")
        ELSE Result(TRUE, value, "")

validateComment(raw) ==
    LET value == CommentString(Coalesce(raw, Str(<<>>)))
    IN  IF length(value) > CommentMax
        THEN Result(FALSE, value, "Máximo 500 caracteres.")
        ELSE Result(TRUE, value, "")

(***************************************************************************)
(* Server validation: validateProfile({ name, email, comment }).           *)
(***************************************************************************)
\* a plausible slip: the character class without Ü, Ñ, ü and ñ
serverNameRegex_NoDieresis ==
    <<Item(FALSE, (NameLetters \ {"Ü", "Ñ", "ü", "ñ"}) \cup WhiteSpace, NameMin, NameMax,
           FALSE)>>

serverNameRegex == <<Item(FALSE, NameLetters \cup WhiteSpace, NameMin, NameMax, FALSE)>>

serverEmailRegex ==
    <<NotSpaceNorAt(1), Literal("@"), NotSpaceNorAt(1), Literal("."), NotSpaceNorAt(2)>>

serverCleanText(str) == ReplaceWsRuns(trim(String(str)))

NoErrors == [f \in {} |-> ""]

\* errors.field = message
Put(errors, field, message) ==
    [f \in DOMAIN errors \cup {field} |-> IF f = field THEN message ELSE errors[f]]

NameError(n) ==
    IF n = <<>> THEN "Nombre obligatorio"
    ELSE IF ~RegexTest(serverNameRegex, n)
         THEN "Nombre inválido (solo letras y espacios, 2-50)"
    ELSE ""

EmailError(e) ==
    IF e = <<>> THEN "Email obligatorio"
    ELSE IF ~RegexTest(serverEmailRegex, e) THEN "Email inválido"
    ELSE ""

CommentError(c) ==
    IF length(c) > CommentMax THEN "Comentario demasiado largo (máx. 500)" ELSE ""

\* a plausible slip: the later fields are checked only while no error is recorded
validateProfile_ShortCircuit(body) ==
    LET n == serverCleanText(Coalesce(body.name, Str(<<>>)))
        e == toLowerCase(serverCleanText(Coalesce(body.email, Str(<<>>))))
        c == CommentString(Coalesce(body.comment, Str(<<>>)))
        e1 == IF NameError(n) # "" THEN Put(NoErrors, "name", NameError(n)) ELSE NoErrors
        e2 == IF DOMAIN e1 = {} /\ EmailError(e) # ""
              THEN Put(e1, "email", EmailError(e)) ELSE e1
        e3 == IF DOMAIN e2 = {} /\ CommentError(c) # ""
              THEN Put(e2, "comment", CommentError(c)) ELSE e2
    IN  [ok |-> DOMAIN e3 = {},
         cleaned |-> [name |-> n, email |-> e, comment |-> c],
         errors |-> e3]

validateProfile(body) ==
    LET n == serverCleanText(Coalesce(body.name, Str(<<>>)))
        e == toLowerCase(serverCleanText(Coalesce(body.email, Str(<<>>))))
        c == CommentString(Coalesce(body.comment, Str(<<>>)))
        e1 == IF NameError(n) # "" THEN Put(NoErrors, "name", NameError(n)) ELSE NoErrors
        e2 == IF EmailError(e) # "" THEN Put(e1, "email", EmailError(e)) ELSE e1
        e3 == IF CommentError(c) # "" THEN Put(e2, "comment", CommentError(c)) ELSE e2
    IN  [ok |-> DOMAIN e3 = {},
         cleaned |-> [name |-> n, email |-> e, comment |-> c],
         errors |-> e3]

(***************************************************************************)
(* Sanitizers.  Both libraries parse the dirty string, walk its elements   *)
(* and serialize what the policy keeps; the policy is what the program     *)
(* passes, completed with the library's defaults.  An element that is not  *)
(* allowed loses its tags and keeps its content, except the elements whose *)
(* content is dropped with them (script, style, ...); an allowed element   *)
(* keeps the attributes the policy allows; a closing tag without its       *)
(* opening tag is dropped and an element left open is closed at the end.   *)
(***************************************************************************)
VoidTags == {"br", "img", "hr", "input"}

\* attribute names the libraries recognise as data-* and aria-*
IsDataAttr(name) == name \in {"data-x"}
IsAriaAttr(name) == name \in {"aria-label"}

AttrAllowed(P, tag, name) ==
    \/ name \in P.globalAttributes
    \/ tag \in DOMAIN P.allowedAttributes /\ name \in P.allowedAttributes[tag]
    \/ P.allowDataAria /\ (IsDataAttr(name) \/ IsAriaAttr(name))

SchemeAllowed(P, a) ==
    \/ a.scheme = ""
    \/ a.scheme \in P.allowedSchemes
    \/ ~P.schemesOnEveryAttribute /\ a.name \notin P.schemeAttributes

FilterAttrs(P, tag, attrs) ==
    { a \in attrs : AttrAllowed(P, tag, a.name) /\ SchemeAllowed(P, a) }

\* closing tags of the kept elements of a stack (innermost first)
RECURSIVE CloseAll(_)
CloseAll(stack) ==
    IF stack = <<>> THEN <<>>
    ELSE (IF Head(stack).kept THEN <<Close(Head(stack).tag)>> ELSE <<>>)
           \o CloseAll(Tail(stack))

\* index of the innermost open element named tag, 0 if none
Innermost(stack, tag) ==
    IF \E i \in DOMAIN stack : stack[i].tag = tag
    THEN CHOOSE i \in DOMAIN stack :
            stack[i].tag = tag /\ \A j \in 1 .. (i - 1) : stack[j].tag # tag
    ELSE 0

\* what follows the first lexeme: an HTML parser drops the newline that comes
\* right after the start tag of pre, listing and textarea
AfterLexeme(P, toks) ==
    LET t == Head(toks)
        rest == Tail(toks)
    IN  IF /\ t.k = "open" /\ t.tag \in P.dropsNewlineAfter
           /\ rest # <<>> /\ Head(rest) = Chr("\n")
        THEN Tail(rest)
        ELSE rest

\* skip = the element whose raw content is being dropped, "" if none
RECURSIVE Walk(_, _, _, _)
Walk(P, toks, stack, skip) ==
    IF toks = <<>> THEN CloseAll(stack)
    ELSE LET t == Head(toks)
             rest == AfterLexeme(P, toks)
         IN  IF skip # ""
             THEN Walk(P, Tail(toks), stack,
                       IF t.k = "close" /\ t.tag = skip THEN "" ELSE skip)
             ELSE CASE t.k = "chr" -> <<t>> \o Walk(P, rest, stack, "")
                    [] t.k = "open" ->
                         IF t.tag \in P.allowedTags
                         THEN <<Open(t.tag, FilterAttrs(P, t.tag, t.attrs))>>
                                \o Walk(P, rest,
                                        IF t.tag \in VoidTags THEN stack
                                        ELSE <<[tag |-> t.tag, kept |-> TRUE]>> \o stack,
                                        "")
                         ELSE IF t.tag \in P.dropContent THEN Walk(P, rest, stack, t.tag)
                         ELSE Walk(P, rest,
                                   IF t.tag \in VoidTags THEN stack
                                   ELSE <<[tag |-> t.tag, kept |-> FALSE]>> \o stack,
                                   "")
                    [] t.k = "close" ->
                         LET i == Innermost(stack, t.tag)
                         IN  IF i = 0 THEN Walk(P, rest, stack, "")
                             ELSE CloseAll(SubSeq(stack, 1, i))
                                    \o Walk(P, rest, SubSeq(stack, i + 1, Len(stack)), "")

AllowedTags ==
    {"b", "i", "em", "strong", "u", "p", "br", "ul", "ol", "li", "code", "pre", "a"}

NoAttributes == [t \in {} |-> {}]

\* sanitize-html with { allowedTags, allowedAttributes, allowedSchemes } and its
\* defaults: nonTextTags, allowedSchemesAppliedToAttributes.  Its parser
\* (htmlparser2) keeps every character of the text.
ServerPolicy ==
    [allowedTags |-> AllowedTags,
     allowedAttributes |-> [t \in {"a"} |-> {"href", "target", "rel"}],
     globalAttributes |-> {},
     allowDataAria |-> FALSE,
     allowedSchemes |-> {"http", "https", "mailto"},
     schemesOnEveryAttribute |-> FALSE,
     schemeAttributes |-> {"href", "src", "cite"},
     dropContent |-> {"script", "style", "textarea", "option"},
     dropsNewlineAfter |-> {}]

\* DOMPurify with { ALLOWED_TAGS, ALLOWED_ATTR } and its defaults: ALLOWED_ATTR
\* holds for every tag, ALLOW_DATA_ATTR and ALLOW_ARIA_ATTR are on, and the
\* value of every attribute is matched against the default ALLOWED_URI_REGEXP.
\* The dirty string is parsed by the browser's HTML parser and the result is the
\* innerHTML of the cleaned body.
ClientPolicy ==
    [allowedTags |-> AllowedTags,
     allowedAttributes |-> NoAttributes,
     globalAttributes |-> {"href", "target", "rel"},
     allowDataAria |-> TRUE,
     allowedSchemes |-> {"http", "https", "ftp", "ftps", "mailto", "tel", "callto", "cid", "xmpp"},
     schemesOnEveryAttribute |-> TRUE,
     schemeAttributes |-> {},
     dropContent |-> {"script", "style", "textarea", "option", "iframe", "noscript"},
     dropsNewlineAfter |-> {"pre", "listing", "textarea"}]

sanitizeCommentHtml(dirty) == Walk(ServerPolicy, dirty, <<>>, "")

sanitizeUserHtml(dirtyHtml) == Walk(ClientPolicy, dirtyHtml, <<>>, "")

(***************************************************************************)
(* JSON.stringify(value, null, 2) of the server's answers, and the text a  *)
(* comment spells, as sequences of text pieces.                            *)
(***************************************************************************)
SpellAttr(a) ==
    <<" ", a.name, "=", "\"">>
      \o (IF a.scheme = "" THEN <<>> ELSE <<a.scheme, ":">>)
      \o <<a.rest, "\"">>

RECURSIVE SpellAttrs(_)
SpellAttrs(S) ==
    IF S = {} THEN <<>>
    ELSE LET x == CHOOSE y \in S : TRUE IN SpellAttr(x) \o SpellAttrs(S \ {x})

RECURSIVE Spell(_)
Spell(c) ==
    IF c = <<>> THEN <<>>
    ELSE LET t == Head(c)
         IN  (CASE t.k = "chr" -> <<t.c>>
                [] t.k = "open" -> <<"<", t.tag>> \o SpellAttrs(t.attrs) \o <<">">>
                [] t.k = "close" -> <<"<", "/", t.tag, ">">>)
               \o Spell(Tail(c))

\* a JSON string literal: quotes, backslashes and line feeds are escaped
JsonEscape(s) ==
    replaceAll(
      replaceAll(
        replaceAll(
          replaceAll(s, "\\", <<"\\", "\\">>),
          "\"", <<"\\", "\"">>),
        "\n", <<"\\", "n">>),
      "\t", <<"\\", "t">>)

JsonString(s) == <<"\"">> \o JsonEscape(s) \o <<"\"">>

JsonKey(indent, key) == <<"\n", indent>> \o JsonString(<<key>>) \o <<":", " ">>

RECURSIVE JsonErrors(_, _)
JsonErrors(errors, keys) ==
    IF keys = <<>> THEN <<>>
    ELSE LET more == \E i \in 2 .. Len(keys) : keys[i] \in DOMAIN errors
         IN  (IF Head(keys) \in DOMAIN errors
              THEN JsonKey("    ", Head(keys)) \o JsonString(<<errors[Head(keys)]>>)
                     \o (IF more THEN <<",">> ELSE <<>>)
              ELSE <<>>)
               \o JsonErrors(errors, Tail(keys))

\* what fetch rejects with when the network fails: an Error has no enumerable
\* property, JSON.stringify gives {}
NetworkError == [name |-> "TypeError"]

stringify(data) ==
    IF "name" \in DOMAIN data THEN <<"{", "}">>
    ELSE IF data.ok
    THEN <<"{">> \o JsonKey("  ", "ok") \o <<"true", ",">>
           \o JsonKey("  ", "saved") \o <<"{">>
           \o JsonKey("    ", "name") \o JsonString(data.saved.name) \o <<",">>
           \o JsonKey("    ", "email") \o JsonString(data.saved.email) \o <<",">>
           \o JsonKey("    ", "commentSanitized")
           \o JsonString(Spell(data.saved.commentSanitized))
           \o <<"\n", "  ", "}", ",">>
           \o JsonKey("  ", "notes") \o <<"[", "\n", "    ">>
           \o JsonString(<<data.notes[1]>>) \o <<",", "\n", "    ">>
           \o JsonString(<<data.notes[2]>>) \o <<"\n", "  ", "]", "\n", "}">>
    ELSE <<"{">> \o JsonKey("  ", "ok") \o <<"false", ",">>
           \o JsonKey("  ", "errors") \o <<"{">>
           \o JsonErrors(data.errors, <<"name", "email", "comment">>)
           \o <<"\n", "  ", "}", "\n", "}">>

(***************************************************************************)
(* Server: app.post("/api/profile").                                       *)
(***************************************************************************)
NoBody == [present |-> FALSE, name |-> Undefined, email |-> Undefined, comment |-> Undefined]
Json(name, email, comment) ==
    [present |-> TRUE, name |-> name, email |-> email, comment |-> comment]

StatusBadRequest == 400
StatusOk == 200

\* a plausible slip: the comment is saved as it came
profileHandler_RawComment(body) ==
    LET v == validateProfile(body)
    IN  IF ~v.ok
        THEN [status |-> StatusBadRequest,
              json |-> [ok |-> FALSE, errors |-> v.errors],
              sanitized |-> {}]
        ELSE [status |-> StatusOk,
              json |-> [ok |-> TRUE,
                        saved |-> [name |-> v.cleaned.name, email |-> v.cleaned.email,
                                   commentSanitized |-> v.cleaned.comment],
                        notes |-> <<"Validación y sanitización también se hacen en servidor",
                                    "Nunca confíes solo en el frontend">>],
              sanitized |-> {}]

\* the answer to a request body (req.body || {}), and what was sanitized for it
profileHandler(body) ==
    LET v == validateProfile(body)
    IN  IF ~v.ok
        THEN [status |-> StatusBadRequest,
              json |-> [ok |-> FALSE, errors |-> v.errors],
              sanitized |-> {}]
        ELSE LET commentSanitized == sanitizeCommentHtml(v.cleaned.comment)
             IN  [status |-> StatusOk,
                  json |-> [ok |-> TRUE,
                            saved |-> [name |-> v.cleaned.name, email |-> v.cleaned.email,
                                       commentSanitized |-> commentSanitized],
                            notes |-> <<"Validación y sanitización también se hacen en servidor",
                                        "Nunca confíes solo en el frontend">>],
                  sanitized |-> {v.cleaned.comment}]

(***************************************************************************)
(* Client: the form's submit handler, its continuation after the fetch,    *)
(* and the reset button.                                                   *)
(***************************************************************************)
MaxInFlight == 1     \* requests and answers on the wire at once

None == <<>>

\* The HTML sinks (innerHTML, insertAdjacentHTML) parse the string they receive.
\* In that string the markup written by the template and by the sanitizer is
\* already lexemes; a text put into it arrives character by character: there
\* < followed by a name and > is a tag (its attributes are not told apart), and
\* a character reference is the character it names.
CharacterReferences ==
    {[text |-> EntAmp, char |-> "&"], [text |-> EntLt, char |-> "<"],
     [text |-> EntGt, char |-> ">"], [text |-> EntQuot, char |-> "\""],
     [text |-> EntApos, char |-> "'"]}

\* the character references that begin at index j of html (at most one)
ReferenceAt(html, j) ==
    { r \in CharacterReferences :
        /\ j + Len(r.text) - 1 <= Len(html)
        /\ \A i \in DOMAIN r.text : html[j + i - 1] = Chr(r.text[i]) }

StartsName(c) ==
    c # "" /\ SubSeq(c, 1, 1) \in Range(AsciiUpperSeq) \cup Range(AsciiLowerSeq)

\* index of the > that ends the tag beginning at index j, 0 if none begins there
TagEnd(html, j) ==
    LET name == IF j + 2 <= Len(html) /\ html[j + 1] = Chr("/") THEN j + 2 ELSE j + 1
        ends == { k \in (name + 1) .. Len(html) : html[k] = Chr(">") }
    IN  IF /\ html[j] = Chr("<") /\ name < Len(html)
           /\ html[name].k = "chr" /\ StartsName(html[name].c)
           /\ ends # {}
        THEN CHOOSE k \in ends : \A e \in ends : k <= e
        ELSE 0

\* index of the last lexeme of the token that begins at index j: a lexeme of
\* markup (with the newline dropped after <pre>), a tag, a character reference
\* or one piece of text
TokenEnd(html, j) ==
    IF html[j].k # "chr"
    THEN (IF /\ html[j].k = "open" /\ html[j].tag \in ClientPolicy.dropsNewlineAfter
             /\ j < Len(html) /\ html[j + 1] = Chr("\n")
          THEN j + 1 ELSE j)
    ELSE IF TagEnd(html, j) > 0 THEN TagEnd(html, j)
    ELSE IF ReferenceAt(html, j) # {}
    THEN j + Len((CHOOSE r \in ReferenceAt(html, j) : TRUE).text) - 1
    ELSE j

\* what the token that begins at index j is parsed into
TokenAt(html, j) ==
    IF html[j].k # "chr" THEN html[j]
    ELSE IF TagEnd(html, j) > 0
    THEN (IF html[j + 1] = Chr("/") THEN Close(html[j + 2].c) ELSE Open(html[j + 1].c, {}))
    ELSE IF ReferenceAt(html, j) # {}
    THEN Chr((CHOOSE r \in ReferenceAt(html, j) : TRUE).char)
    ELSE html[j]

\* a token begins at index m, one beginning at index lo < m: no tag, character
\* reference or dropped newline that begins before m reaches m
TokenStart(html, lo, m) ==
    /\ \A j \in (IF m - 5 > lo THEN m - 5 ELSE lo) .. (m - 1) : TokenEnd(html, j) < m
    /\ \A j \in lo .. (m - 6) : html[j].c = "<" => TagEnd(html, j) < m

\* the first index from m to hi where a token begins, hi + 1 if there is none
RECURSIVE FirstStart(_, _, _, _)
FirstStart(html, lo, m, hi) ==
    IF m > hi THEN hi + 1
    ELSE IF TokenStart(html, lo, m) THEN m
    ELSE FirstStart(html, lo, m + 1, hi)

\* the tokens of html[lo .. hi] one after the other, a token beginning at lo
RECURSIVE ParseTokens(_, _, _)
ParseTokens(html, lo, hi) ==
    IF lo > hi THEN <<>>
    ELSE <<TokenAt(html, lo)>> \o ParseTokens(html, TokenEnd(html, lo) + 1, hi)

\* the parse of html[lo .. hi], a token beginning at lo and one ending at hi: a
\* long range is cut in two at the first token that begins after its middle
RECURSIVE ParseRange(_, _, _)
ParseRange(html, lo, hi) ==
    LET cut == FirstStart(html, lo, ((lo + hi) \div 2) + 1, hi)
    IN  IF hi - lo < 32 \/ cut > hi THEN ParseTokens(html, lo, hi)
        ELSE ParseRange(html, lo, cut - 1) \o ParseRange(html, cut, hi)

ParseHtml(html) == ParseRange(html, 1, Len(html))

\* element.innerHTML = html
innerHTML(html) == ParseHtml(html)

\* element.insertAdjacentHTML("beforeend", html), on the children of element
insertAdjacentHTML(children, html) == children \o ParseHtml(html)

PreviewHtml(nameEsc, emailEsc, safeHtml) ==
    <<Chr("\n"), Open("p", {}), Open("b", {}), Chr("Nombre:"), Close("b"), Chr(" ")>>
      \o Text(nameEsc)
      \o <<Close("p"), Chr("\n"), Open("p", {}), Open("b", {}), Chr("Email:"), Close("b"),
           Chr(" ")>>
      \o Text(emailEsc)
      \o <<Close("p"), Chr("\n"), Open("p", {}), Open("b", {}),
           Chr("Comentario (sanitizado):"), Close("b"), Close("p"), Chr("\n"),
           Open("div", {})>>
      \o safeHtml
      \o <<Close("div"), Chr("\n")>>

EscapedText(name, email, comment) ==
    <<Chr("Nombre: ")>> \o Text(name) \o <<Chr("\n"), Chr("Email: ")>> \o Text(email)
      \o <<Chr("\n"), Chr("Comentario (texto literal):"), Chr("\n")>> \o comment

\* the two pieces of HTML written after the fetch, json being the text put in <pre>
ServerHtml(heading, json) ==
    <<Open("p", {}), Open("b", {}), Chr("Servidor:"), Close("b"), Chr(heading), Close("p"),
      Open("div", {Attr("class", "", "muted")}), Open("pre", {})>>
      \o Text(json)
      \o <<Close("pre"), Close("div")>>

Remove(q, i) == SubSeq(q, 1, i - 1) \o SubSeq(q, i + 1, Len(q))

\* a plausible slip: the comment's flag left out of the conjunction
formOk_NoComment(vName, vEmail, vComment) == vName.ok /\ vEmail.ok

\* const ok = vName.ok && vEmail.ok && vComment.ok
formOk(vName, vEmail, vComment) == vName.ok /\ vEmail.ok /\ vComment.ok

\* what dumpStorage() shows: the stored profile and the stored draft
dumpStorage(profile, draft) == [profile |-> profile, draftComment |-> draft]

\* form.addEventListener("submit", ...) up to the await of the fetch
Submit ==
    LET vName == validateName(Str(rawName))
        vEmail == validateEmail(Str(rawEmail))
        vComment == validateComment(Str(rawComment))
        ok == formOk(vName, vEmail, vComment)
    IN  /\ ok => Len(request) + Len(response) < MaxInFlight
        /\ errName' = vName.msg
        /\ errEmail' = vEmail.msg
        /\ errComment' = vComment.msg
        /\ pc' = pc
        /\ fn' = "submit"
        /\ arg' = [name |-> rawName, email |-> rawEmail, comment |-> rawComment]
        /\ ret' = [ok |-> ok]
        /\ IF ~ok
           THEN UNCHANGED <<safePreview, escapedPreview, storeVars, storageDump, request,
                            clientSanitized>>
           ELSE LET safeHtml == sanitizeUserHtml(vComment.value)
                IN  /\ clientSanitized' = clientSanitized \cup {vComment.value}
                    /\ safePreview' =
                         innerHTML(PreviewHtml(escapeHtml(Str(vName.value)),
                                               escapeHtml(Str(vEmail.value)), safeHtml))
                    /\ escapedPreview' =
                         EscapedText(vName.value, vEmail.value, vComment.value)
                    /\ profileStore' = [name |-> vName.value, email |-> vEmail.value]
                    /\ draftStore' = vComment.value
                    /\ storageDump' = dumpStorage(profileStore', draftStore')
                    /\ request' = Append(request,
                                     [from |-> "client",
                                      body |-> Json(Str(vName.value), Str(vEmail.value),
                                                    Str(vComment.value))])
        /\ UNCHANGED <<formVars, response, serverSanitized>>

\* the handler resumes after the await: api() returned the data (2xx) or threw it
Deliver(i) ==
    /\ i \in DOMAIN response
    /\ response[i].to = "client"
    /\ safePreview' =
          insertAdjacentHTML(safePreview,
              ServerHtml(IF response[i].status = StatusOk THEN " Guardado" ELSE "Error",
                         escapeHtml(Str(stringify(response[i].json)))))
    /\ response' = Remove(response, i)
    /\ pc' = pc
    /\ fn' = "deliver"
    /\ arg' = response[i]
    /\ ret' = None
    /\ UNCHANGED <<formVars, errName, errEmail, errComment, escapedPreview, storeVars,
                   request, logVars, storageDump>>

\* the fetch of the client rejects (server unreachable)
FetchFails(i) ==
    /\ i \in DOMAIN request
    /\ request[i].from = "client"
    /\ request' = Remove(request, i)
    /\ response' = Append(response,
                      [to |-> "client", status |-> 0, json |-> NetworkError,
                       body |-> request[i].body])
    /\ pc' = pc
    /\ fn' = "fetchFails"
    /\ arg' = request[i].body
    /\ ret' = None
    /\ UNCHANGED <<formVars, domVars, storeVars, logVars, storageDump>>

\* btnReset: form.reset() and the five slots emptied
Reset ==
    /\ rawName' = <<>>
    /\ rawEmail' = <<>>
    /\ rawComment' = <<>>
    /\ errName' = ""
    /\ errEmail' = ""
    /\ errComment' = ""
    /\ safePreview' = <<>>
    /\ escapedPreview' = <<>>
    /\ pc' = pc
    /\ fn' = "reset"
    /\ arg' = None
    /\ ret' = None
    /\ UNCHANGED <<storeVars, netVars, logVars, storageDump>>

(***************************************************************************)
(* The server answers a request; another HTTP client posts any body.       *)
(***************************************************************************)
PostProfile(i) ==
    /\ i \in DOMAIN request
    /\ LET reply == profileHandler(request[i].body)
       IN  /\ response' = Append(response,
                             [to |-> request[i].from, status |-> reply.status,
                              json |-> reply.json, body |-> request[i].body])
           /\ serverSanitized' = serverSanitized \cup reply.sanitized
           /\ pc' = pc
           /\ fn' = "profile"
           /\ arg' = request[i].body
           /\ ret' = reply
    /\ request' = Remove(request, i)
    /\ UNCHANGED <<formVars, domVars, storeVars, storageDump, clientSanitized>>

Curl(body) ==
    /\ Len(request) + Len(response) < MaxInFlight
    /\ request' = Append(request, [from |-> "curl", body |-> body])
    /\ pc' = pc
    /\ fn' = "curl"
    /\ arg' = body
    /\ ret' = None
    /\ UNCHANGED <<formVars, domVars, storeVars, storageDump, response, logVars>>

CurlDone(i) ==
    /\ i \in DOMAIN response
    /\ response[i].to = "curl"
    /\ response' = Remove(response, i)
    /\ pc' = pc
    /\ fn' = "curlDone"
    /\ arg' = response[i]
    /\ ret' = None
    /\ UNCHANGED <<formVars, domVars, storeVars, storageDump, request, logVars>>

(***************************************************************************)
(* Inputs.                                                                 *)
(***************************************************************************)
Strings(alphabet, n) == UNION { [1 .. k -> alphabet] : k \in 0 .. n }

Repeat(c, n) == [i \in 1 .. n |-> c]

X100 ==
    "xxxxxxxxxxxxxxxxxxxxxxxxxxxxxxxxxxxxxxxxxxxxxxxxxx"
      \o "xxxxxxxxxxxxxxxxxxxxxxxxxxxxxxxxxxxxxxxxxxxxxxxxxx"

\* a comment of n characters of text, n >= 1
LongText(n) ==
    Repeat(Chr(X100), (n - 1) \div 100)
      \o <<Chr(SubSeq(X100, 1, n - 100 * ((n - 1) \div 100)))>>

ScriptThenBold ==
    <<Open("script", {}), Chr("alert(1)"), Close("script"), Open("b", {}), Chr("hi"),
      Close("b")>>

FormNames == {<<>>, <<" ","A","ñ"," ","\t","Ü">>, <<"<","b",">">>}
FormEmails == {<<>>, <<"<","B",">","@","c",".","c","c">>, <<"a","@","c","o","m">>}
FormComments ==
    {<<>>, ScriptThenBold, LongText(CommentMax + 1),
     <<Open("a", {Attr("href", "javascript", "alert(1)"), Attr("onclick", "", "x")}),
       Chr("x"), Close("a")>>}

AnaLopez == <<"A","n","a"," "," "," ","L","ó","p","e","z">>
AnaMailCom == <<" "," ","A","N","A","@","M","A","I","L",".","C","O","M"," ">>
ValidName == Str(<<"A","n","a">>)
ValidEmail == Str(<<"a","@","b",".","c","c">>)

CurlBodies ==
    {NoBody,
     Json(Null, Num(5), Num(7)),
     Json(Str(AnaLopez), Str(AnaMailCom), Str(ScriptThenBold)),
     Json(ValidName, ValidEmail, Str(LongText(CommentMax + 1))),
     Json(Str(<<"A","1">>), ValidEmail, Undefined),
     Json(ValidName, Str(<<"a","@","b">>), Str(<<>>)),
     Json(Str(<<"A","1">>), Str(<<"a","@","b">>), Str(LongText(CommentMax + 1)))}

(***************************************************************************)
(* The handlers' specification.                                            *)
(***************************************************************************)
HandlerInit ==
    /\ errName = "" /\ errEmail = "" /\ errComment = ""
    /\ safePreview = <<>> /\ escapedPreview = <<>>
    /\ profileStore = None /\ draftStore = None /\ storageDump = None
    /\ request = <<>> /\ response = <<>>
    /\ clientSanitized = {} /\ serverSanitized = {}

Init ==
    /\ pc = "handlers" /\ fn = "none" /\ arg = None /\ ret = None
    /\ rawName \in FormNames
    /\ rawEmail \in FormEmails
    /\ rawComment \in FormComments
    /\ HandlerInit

Next ==
    \/ Submit
    \/ Reset
    \/ \E i \in 1 .. MaxInFlight + 1 : Deliver(i)
    \/ \E i \in 1 .. MaxInFlight + 1 : FetchFails(i)
    \/ \E i \in 1 .. MaxInFlight + 1 : PostProfile(i)
    \/ \E i \in 1 .. MaxInFlight + 1 : CurlDone(i)
    \/ \E body \in CurlBodies : Curl(body)

Spec == Init /\ [][Next]_vars

(***************************************************************************)
(* The helpers called on their own: one action per function, its argument  *)
(* drawn from a bounded set.                                               *)
(***************************************************************************)
Call(name, result) ==
    /\ pc = "call"
    /\ fn = name
    /\ pc' = "return"
    /\ ret' = result
    /\ UNCHANGED <<fn, arg, handlerVars>>

\* the helper name is about to be called on a value of inputs
Pending(name, inputs) ==
    /\ pc = "call" /\ fn = name /\ arg \in inputs /\ ret = None
    /\ rawName = <<>> /\ rawEmail = <<>> /\ rawComment = <<>>
    /\ HandlerInit

NonStrings == {Null, Undefined} \cup { Num(n) : n \in 0 .. MaxNumber }

\* ---- escapeHtml, escaparHtml
EscapeAlphabet == {"&", "<", ">", "\"", "'", "a", ";"}
EscapeInputs == { Str(s) : s \in Strings(EscapeAlphabet, MaxLen) } \cup NonStrings

CallEscapeHtml == Call("escapeHtml", escapeHtml(arg))
CallEscaparHtml == Call("escaparHtml", escaparHtml(arg))

NextEscape ==
    \/ CallEscapeHtml
    \/ CallEscaparHtml

InitEscape ==
    \/ Pending("escapeHtml", EscapeInputs)
    \/ Pending("escaparHtml", EscapeInputs)

SpecEscape == InitEscape /\ [][NextEscape]_vars

\* ---- cleanText (client, server, and the variant without coercion)
CleanAlphabet == {" ", "\t", "\n", "a", "b"}
CleanInputs == { Str(s) : s \in Strings(CleanAlphabet, MaxLen) } \cup NonStrings

\* an empty or absent value: null, undefined, "", white space only
EmptyOrAbsent ==
    {Null, Undefined} \cup { Str(s) : s \in Strings({" ", "\t"}, MaxLen) }

CallCleanText == Call("cleanText", cleanText(arg))
CallServerCleanText == Call("serverCleanText", serverCleanText(arg))
CallCleanTextNoCoercion == Call("cleanTextNoCoercion", cleanTextNoCoercion(arg))
CallValidateName == Call("validateName", validateName(arg))
CallValidateEmail == Call("validateEmail", validateEmail(arg))
CallValidateComment == Call("validateComment", validateComment(arg))
CallValidateProfile == Call("validateProfile", validateProfile(arg))

NextClean ==
    \/ CallCleanText
    \/ CallServerCleanText
    \/ CallCleanTextNoCoercion
    \/ CallValidateName
    \/ CallValidateEmail

InitClean ==
    \/ Pending("cleanText", CleanInputs)
    \/ Pending("serverCleanText", CleanInputs)
    \/ Pending("cleanTextNoCoercion", CleanInputs)
    \/ Pending("validateName", EmptyOrAbsent)
    \/ Pending("validateEmail", EmptyOrAbsent)

SpecClean == InitClean /\ [][NextClean]_vars

\* ---- the validators
NameAlphabet == {"a", "Ñ", " ", "1"}
Ana123 == <<"A","n","a","1","2","3">>

NameInputs ==
    { Str(s) : s \in Strings(NameAlphabet, MaxLen) }
      \cup { Str(Repeat("a", n)) : n \in {NameMax - 1, NameMax, NameMax + 1} }
      \cup { Str(<<" ", "\t">> \o Repeat("ñ", n) \o <<"\n">>) : n \in {NameMax, NameMax + 1} }
      \cup { Str(Repeat("a", NameMax - 1) \o <<c>>) : c \in {"1", "<", "ü", "Z"} }
      \cup {Str(AnaLopez), Str(Ana123), Str(<<"J","o","s","é">>), Str(<<"a","\t","\n","b">>)}
      \cup NonStrings

EmailAlphabet == {"a", "A", "@", ".", " "}
EmailInputs ==
    { Str(s) : s \in Strings(EmailAlphabet, MaxEmailLen) }
      \cup {Str(AnaMailCom),
            Str(<<"a","n","a","@","c","o","m">>),
            Str(<<"a","n","a","@","@","m","a","i","l",".","c","o","m">>),
            Str(<<"a","n","a"," ","m","@","g",".","c","o","m">>),
            Str(<<"A","@","b",".","c">>),
            Str(<<"a",".","b","@","c",".","d",".","E","S">>),
            Str(<<"a","@","b","\t",".","c","c">>)}
      \cup NonStrings

CommentAlphabet ==
    {Chr("hi"), Chr(" "),
     Open("b", {}), Close("b"),
     Open("script", {}), Close("script"),
     Open("div", {Attr("style", "", "x")}), Close("div"),
     Open("a", {Attr("href", "https", "//e.es"), Attr("target", "", "_blank"),
                Attr("rel", "", "noopener")}),
     Open("a", {Attr("href", "javascript", "alert(1)"), Attr("onclick", "", "f()")}),
     Open("a", {Attr("href", "tel", "112")}),
     Close("a"),
     Open("img", {Attr("src", "", "x.png"), Attr("onerror", "", "f()")}),
     Open("p", {Attr("data-x", "", "1"), Attr("target", "", "_top")}),
     Open("br", {}),
     Open("pre", {}), Close("pre"), Chr("\n")}

HtmlInputs == Strings(CommentAlphabet, MaxTokens) \cup {ScriptThenBold}

CommentInputs ==
    { Str(c) : c \in Strings(CommentAlphabet, MaxTokens - 1) }
      \cup { Str(LongText(n)) : n \in (CommentMax - 2) .. (CommentMax + 2) }
      \cup { Str(LongText(CommentMax - 3) \o <<t>>) :
               t \in {Chr("x"), Open("b", {}), Close("b"), Open("br", {})} }
      \cup NonStrings

ProfileInputs ==
    { Json(n, Str(<<"a","@","b",".","c","c">>), Str(<<>>)) : n \in NameInputs }
      \cup { Json(Str(<<"A","n","a">>), e, Str(<<>>)) :
               e \in { Str(s) : s \in Strings(EmailAlphabet, MaxLen) } \cup NonStrings
                       \cup {Str(AnaMailCom), Str(<<"a","n","a","@","c","o","m">>)} }
      \cup { Json(Str(<<"A","n","a">>), Str(<<"a","@","b",".","c","c">>), c) :
               c \in CommentInputs }
      \cup { Json(n, e, c) :
               n \in {Null, Str(Ana123), Str(<<"A","n","a">>)},
               e \in {Undefined, Str(<<"a","@","b">>), Str(<<"a","@","b",".","c","c">>)},
               c \in {Undefined, Str(LongText(CommentMax + 1)), Str(ScriptThenBold)} }
      \cup {NoBody}

NextValidate ==
    \/ CallValidateName
    \/ CallValidateEmail
    \/ CallValidateComment
    \/ CallValidateProfile

InitValidate ==
    \/ Pending("validateName", NameInputs)
    \/ Pending("validateEmail", EmailInputs)
    \/ Pending("validateComment", CommentInputs)
    \/ Pending("validateProfile", ProfileInputs)

SpecValidate == InitValidate /\ [][NextValidate]_vars

\* ---- the sanitizers
CallSanitizeCommentHtml == Call("sanitizeCommentHtml", sanitizeCommentHtml(arg))
CallSanitizeUserHtml == Call("sanitizeUserHtml", sanitizeUserHtml(arg))

NextSanitize ==
    \/ CallSanitizeCommentHtml
    \/ CallSanitizeUserHtml

InitSanitize ==
    \/ Pending("sanitizeCommentHtml", HtmlInputs)
    \/ Pending("sanitizeUserHtml", HtmlInputs)

SpecSanitize == InitSanitize /\ [][NextSanitize]_vars

(***************************************************************************)
(* Properties.                                                             *)
(***************************************************************************)
Entities == {EntAmp, EntLt, EntGt, EntQuot, EntApos}

EntityOf(c) ==
    CASE c = "&" -> EntAmp
      [] c = "<" -> EntLt
      [] c = ">" -> EntGt
      [] c = "\"" -> EntQuot
      [] c = "'" -> EntApos
      [] OTHER -> <<c>>

\* every character of s replaced by its entity, each exactly once
RECURSIVE EscapedOnce(_)
EscapedOnce(s) ==
    IF s = <<>> THEN <<>> ELSE EntityOf(Head(s)) \o EscapedOnce(Tail(s))

StartsEntity(s, i) ==
    \E e \in Entities : i + Len(e) - 1 <= Len(s) /\ SubSeq(s, i, i + Len(e) - 1) = e

\* C2: escapeHtml (and escaparHtml) returns its input with every &, <, >, " and '
\* replaced by its entity, each occurrence once: the output holds no raw <, >, "
\* or ', every & of the output begins one of the five entities, and no entity
\* written by a substitution is escaped again.
C2_EscapeReplacesEachOnce ==
    (pc = "return" /\ fn \in {"escapeHtml", "escaparHtml"}) =>
        /\ ret = EscapedOnce(String(arg))
        /\ \A i \in DOMAIN ret : ret[i] \notin {"<", ">", "\"", "'"}
        /\ \A i \in DOMAIN ret : ret[i] = "&" => StartsEntity(ret, i)

C2_Witness ==
    /\ pc = "return" /\ fn = "escapeHtml"
    /\ arg = Str(<<"<", "&", "\"", "'">>)
    /\ ret = EntLt \o EntAmp \o EntQuot \o EntApos

\* no white space at either end, no two white-space characters in a row, and no
\* white-space character but the space
Normalized(s) ==
    /\ s # <<>> => (s[1] \notin WhiteSpace /\ s[Len(s)] \notin WhiteSpace)
    /\ \A i \in 1 .. (Len(s) - 1) : ~(s[i] \in WhiteSpace /\ s[i + 1] \in WhiteSpace)
    /\ \A i \in DOMAIN s : s[i] \in WhiteSpace => s[i] = " "

\* C5: for every string, cleanText (client and server) returns a text without
\* leading or trailing white space, without a run of two or more white-space
\* characters, whose only white-space character is the space; and cleaning the
\* result again gives the same result.
C5_CleanTextNormalizes ==
    (pc = "return" /\ fn \in {"cleanText", "serverCleanText"} /\ arg.t = "string") =>
        /\ Normalized(ret)
        /\ fn = "cleanText" => cleanText(Str(ret)) = ret
        /\ fn = "serverCleanText" => serverCleanText(Str(ret)) = ret

C5_Witness ==
    /\ pc = "return" /\ fn = "cleanText"
    /\ arg = Str(<<" ", "a", "\t", "\n">>)
    /\ ret = <<"a">>

\* C6: normalization never throws, and an empty or absent value (null, undefined,
\* "", white space only) is normalized to "", so that validateName and
\* validateEmail answer an absent value with their empty-field message.
C6_NormalizerTotalAndEmptyForAbsent ==
    pc = "return" =>
        /\ (fn = "cleanText" /\ arg \in EmptyOrAbsent) => ret = <<>>
        /\ fn = "cleanTextNoCoercion" =>
              (~ret.threw /\ (arg \in EmptyOrAbsent => ret.value = <<>>))
        /\ (fn = "validateName" /\ arg \in EmptyOrAbsent) =>
              (~ret.ok /\ ret.value = <<>> /\ ret.msg = "El nombre es obligatorio.")
        /\ (fn = "validateEmail" /\ arg \in EmptyOrAbsent) =>
              (~ret.ok /\ ret.value = <<>> /\ ret.msg = "El email es obligatorio.")

\* letters (A-Z, a-z, the fixed accented set) and spaces only, 2 to 50 of them
NameText(n) ==
    /\ Len(n) >= NameMin /\ Len(n) <= NameMax
    /\ \A i \in DOMAIN n : n[i] \in NameLetters \cup {" "}

\* C7: validateName normalizes first; an empty normalized value is refused with
\* the empty-field message, a value that is not 2 to 50 letters and spaces with
\* the pattern message, any other is accepted with the normalized value; the
\* name branch of the server's validateProfile decides the same way.
C7_ValidateName ==
    pc = "return" =>
        /\ fn = "validateName" =>
              LET n == cleanText(arg)
              IN  /\ ret.value = n
                  /\ n = <<>> => (~ret.ok /\ ret.msg = "El nombre es obligatorio.")
                  /\ (n # <<>> /\ ~NameText(n)) =>
                        (~ret.ok /\ ret.msg = "Solo letras y espacios (2-50).")
                  /\ NameText(n) => (ret.ok /\ ret.msg = "")
                  /\ arg = Str(Ana123) => ~ret.ok
                  /\ arg = Str(Repeat("a", NameMax + 1)) => ~ret.ok
                  /\ arg = Str(Repeat("a", NameMax)) => ret.ok
        /\ fn = "validateProfile" =>
              LET n == serverCleanText(Coalesce(arg.name, Str(<<>>)))
              IN  /\ ret.cleaned.name = n
                  /\ n = <<>> =>
                        ("name" \in DOMAIN ret.errors
                           /\ ret.errors["name"] = "Nombre obligatorio")
                  /\ (n # <<>> /\ ~NameText(n)) =>
                        ("name" \in DOMAIN ret.errors
                           /\ ret.errors["name"]
                                = "Nombre inválido (solo letras y espacios, 2-50)")
                  /\ NameText(n) => "name" \notin DOMAIN ret.errors

C7_Witness ==
    /\ pc = "return" /\ fn = "validateName"
    /\ arg = Str(AnaLopez)
    /\ ret = Result(TRUE, <<"A","n","a"," ","L","ó","p","e","z">>, "")

NoSpaceNorAt(s) == \A i \in DOMAIN s : s[i] \notin WhiteSpace \cup {"@"}

\* local @ domain . extension: three parts without space or @, the first two of
\* one character or more, the last of two or more
EmailShape(e) ==
    \E i \in DOMAIN e : \E j \in DOMAIN e :
        /\ e[i] = "@" /\ e[j] = "."
        /\ i >= 2 /\ j >= i + 2 /\ Len(e) >= j + 2
        /\ NoSpaceNorAt(SubSeq(e, 1, i - 1))
        /\ NoSpaceNorAt(SubSeq(e, i + 1, j - 1))
        /\ NoSpaceNorAt(SubSeq(e, j + 1, Len(e)))

\* C8: validateEmail normalizes and lower-cases first; an empty result is refused
\* with the empty-field message, a result that has not the shape
\* local@domain.extension with the format message, any other is accepted with the
\* trimmed, lower-cased address; the email branch of validateProfile decides the
\* same way.
C8_ValidateEmail ==
    pc = "return" =>
        /\ fn = "validateEmail" =>
              LET e == toLowerCase(cleanText(arg))
              IN  /\ ret.value = e
                  /\ \A i \in DOMAIN ret.value : ret.value[i] \notin Range(UpperSeq)
                  /\ e = <<>> => (~ret.ok /\ ret.msg = "El email es obligatorio.")
                  /\ (e # <<>> /\ ~EmailShape(e)) =>
                        (~ret.ok /\ ret.msg = "Email no válido.")
                  /\ EmailShape(e) => (ret.ok /\ ret.msg = "")
                  /\ arg = Str(<<"a","n","a","@","c","o","m">>) => ~ret.ok
                  /\ arg = Str(<<"a","n","a","@","@","m","a","i","l",".","c","o","m">>)
                        => ~ret.ok
        /\ fn = "validateProfile" =>
              LET e == toLowerCase(serverCleanText(Coalesce(arg.email, Str(<<>>))))
              IN  /\ ret.cleaned.email = e
                  /\ e = <<>> =>
                        ("email" \in DOMAIN ret.errors
                           /\ ret.errors["email"] = "Email obligatorio")
                  /\ (e # <<>> /\ ~EmailShape(e)) =>
                        ("email" \in DOMAIN ret.errors
                           /\ ret.errors["email"] = "Email inválido")
                  /\ EmailShape(e) => "email" \notin DOMAIN ret.errors

C8_Witness ==
    /\ pc = "return" /\ fn = "validateEmail"
    /\ arg = Str(AnaMailCom)
    /\ ret = Result(TRUE, <<"a","n","a","@","m","a","i","l",".","c","o","m">>, "")

\* the characters of a comment as the validators receive it (absent counts 0)
CommentCount(v) ==
    IF v.t \in {"null", "undefined"} THEN 0 ELSE length(CommentString(v))

\* C9: validateComment asks for nothing but a length of at most 500 characters:
\* absent, null and empty comments pass, 500 characters pass, 501 are refused with
\* the length message, in the client validator and in validateProfile alike.
C9_ValidateComment ==
    pc = "return" =>
        /\ fn = "validateComment" =>
              /\ ret.ok = (CommentCount(arg) <= CommentMax)
              /\ ~ret.ok => ret.msg = "Máximo 500 caracteres."
              /\ arg \in {Null, Undefined, Str(<<>>)} => (ret.ok /\ ret.value = <<>>)
              /\ arg = Str(LongText(CommentMax)) => ret.ok
              /\ arg = Str(LongText(CommentMax + 1)) => ~ret.ok
        /\ fn = "validateProfile" =>
              /\ ("comment" \in DOMAIN ret.errors) = (CommentCount(arg.comment) > CommentMax)
              /\ arg.comment = Str(LongText(CommentMax)) => "comment" \notin DOMAIN ret.errors
              /\ arg.comment = Str(LongText(CommentMax + 1)) =>
                    "comment" \in DOMAIN ret.errors

C9_Witness ==
    /\ pc = "return" /\ fn = "validateComment"
    /\ arg = Str(LongText(CommentMax))
    /\ ret.ok /\ ret.msg = "" /\ length(ret.value) = CommentMax

\* C10: every result of the three validators has the fields ok, value and msg;
\* a refusal carries a message and an acceptance carries the empty message.
C10_ResultShape ==
    (pc = "return" /\ fn \in {"validateName", "validateEmail", "validateComment"}) =>
        /\ DOMAIN ret = {"ok", "value", "msg"}
        /\ ret.ok \in BOOLEAN
        /\ ret.ok <=> ret.msg = ""

C10_Witness ==
    /\ pc = "return" /\ fn = "validateEmail"
    /\ arg = Str(<<"a", "@", "a", ".", "a">>)
    /\ ~ret.ok /\ ret.msg = "Email no válido."

\* C1: whatever the input, the output of both sanitizers holds no tag outside the
\* allow-list, no attribute but href, target and rel, those on anchors only, and
\* no href with a scheme other than http, https or mailto; a script element never
\* survives and allowed markup is kept.
C1_SanitizersKeepOnlyAllowList ==
    (pc = "return" /\ fn \in {"sanitizeCommentHtml", "sanitizeUserHtml"}) =>
        /\ \A i \in DOMAIN ret :
              ret[i].k \in {"open", "close"} =>
                  /\ ret[i].tag \in {"b", "i", "em", "strong", "u", "p", "br", "ul", "ol",
                                     "li", "code", "pre", "a"}
                  /\ \A a \in ret[i].attrs :
                        /\ a.name \in {"href", "target", "rel"}
                        /\ ret[i].tag = "a"
                        /\ a.name = "href" => a.scheme \in {"", "http", "https", "mailto"}
        /\ arg = ScriptThenBold => ret = <<Open("b", {}), Chr("hi"), Close("b")>>

\* What the formula of C1 says of the server's sanitizer alone.
ServerSanitizerKeepsOnlyAllowList ==
    fn = "sanitizeCommentHtml" => C1_SanitizersKeepOnlyAllowList

\* C3: a comment longer than the limit is never sanitized nor rendered: the
\* submit handler leaves the sanitizer, both previews and the network alone, and
\* POST /api/profile answers 400 without sanitizing it or returning it.
C3_TooLongCommentNeverSanitized ==
    /\ [](\A c \in clientSanitized \cup serverSanitized : length(c) <= CommentMax)
    /\ [][/\ (fn' = "submit" /\ length(rawComment) > CommentMax) =>
                /\ clientSanitized' = clientSanitized
                /\ safePreview' = safePreview
                /\ escapedPreview' = escapedPreview
                /\ request' = request
          /\ (fn' = "profile" /\ CommentCount(arg'.comment) > CommentMax) =>
                /\ serverSanitized' = serverSanitized
                /\ ret'.status = StatusBadRequest
                /\ ~ret'.json.ok
                /\ "saved" \notin DOMAIN ret'.json
         ]_vars

C3_Witness ==
    /\ fn = "profile"
    /\ CommentCount(arg.comment) > CommentMax
    /\ ~ret.json.ok
    /\ DOMAIN ret.json.errors = {"comment"}
    /\ errName = "" /\ errEmail = "" /\ errComment = "Máximo 500 caracteres."
    /\ length(rawComment) > CommentMax
    /\ safePreview = <<>>

\* the fields of a request body that fail
FailingFields(body) ==
    LET n == serverCleanText(Coalesce(body.name, Str(<<>>)))
        e == toLowerCase(serverCleanText(Coalesce(body.email, Str(<<>>))))
    IN  (IF NameText(n) THEN {} ELSE {"name"})
          \cup (IF EmailShape(e) THEN {} ELSE {"email"})
          \cup (IF CommentCount(body.comment) <= CommentMax THEN {} ELSE {"comment"})

\* C4: validation never stops at the first failing field: the three fields are
\* all evaluated, ok is the conjunction of the three flags, and the fields that
\* carry a message (error slots of the client, keys of the server's errors) are
\* exactly the fields that fail.
C4_AllFieldsValidated ==
    /\ fn = "submit" =>
          LET failing == FailingFields(Json(Str(arg.name), Str(arg.email), Str(arg.comment)))
          IN  /\ ret.ok = (failing = {})
              /\ (errName # "") = ("name" \in failing)
              /\ (errEmail # "") = ("email" \in failing)
              /\ (errComment # "") = ("comment" \in failing)
    /\ fn = "profile" =>
          /\ ret.json.ok = (FailingFields(arg) = {})
          /\ ~ret.json.ok => DOMAIN ret.json.errors = FailingFields(arg)

C4_Witness ==
    /\ fn = "profile"
    /\ ~ret.json.ok
    /\ DOMAIN ret.json.errors = {"name", "email", "comment"}
    /\ errName # "" /\ errEmail # "" /\ errComment # ""

\* a comment without white space at either end and without two white-space
\* characters in a row
CommentNormalized(c) ==
    LET ws(t) == t.k = "chr" /\ t.c \in WhiteSpace
    IN  /\ c # <<>> => (~ws(c[1]) /\ ~ws(c[Len(c)]))
        /\ \A i \in 1 .. (Len(c) - 1) : ~(ws(c[i]) /\ ws(c[i + 1]))

LowerCased(s) == \A i \in DOMAIN s : s[i] \notin Range(UpperSeq)

\* what C11 says of the name and of the email: the value carried is normalized
\* (the email lower-cased too) and the verdict is the verdict on that value
NameAndEmailCheckedNormalized ==
    /\ fn = "validateName" =>
          (Normalized(ret.value) /\ (ret.ok <=> NameText(ret.value)))
    /\ fn = "validateEmail" =>
          /\ Normalized(ret.value) /\ LowerCased(ret.value)
          /\ ret.ok <=> EmailShape(ret.value)
    /\ fn = "validateProfile" =>
          /\ Normalized(ret.cleaned.name)
          /\ ("name" \notin DOMAIN ret.errors) <=> NameText(ret.cleaned.name)
          /\ Normalized(ret.cleaned.email) /\ LowerCased(ret.cleaned.email)
          /\ ("email" \notin DOMAIN ret.errors) <=> EmailShape(ret.cleaned.email)

C12_SanitizersIdempotent ==
    pc = "return" =>
        /\ fn = "sanitizeCommentHtml" => sanitizeCommentHtml(ret) = ret
        /\ fn = "sanitizeUserHtml" => sanitizeUserHtml(ret) = ret

\* What the formula of C12 says of the server's sanitizer alone.
ServerSanitizerIdempotent ==
    fn = "sanitizeCommentHtml" => C12_SanitizersIdempotent

\* markup of the allow-list only: its tags, href, target and rel on anchors, and
\* http, https or mailto in an href
AllowListOnly(html) ==
    \A i \in DOMAIN html :
        html[i].k \in {"open", "close"} =>
            /\ html[i].tag \in {"b", "i", "em", "strong", "u", "p", "br", "ul", "ol", "li",
                                "code", "pre", "a"}
            /\ \A a \in html[i].attrs :
                  /\ html[i].tag = "a" /\ a.name \in {"href", "target", "rel"}
                  /\ a.name = "href" => a.scheme \in {"", "http", "https", "mailto"}

ServerMessages ==
    [name |-> {"Nombre obligatorio", "Nombre inválido (solo letras y espacios, 2-50)"},
     email |-> {"Email obligatorio", "Email inválido"},
     comment |-> {"Comentario demasiado largo (máx. 500)"}]

\* the answer of POST /api/profile to a body with a failing field
RefusedShape(body, reply) ==
    /\ reply.status = StatusBadRequest
    /\ DOMAIN reply.json = {"ok", "errors"}
    /\ ~reply.json.ok
    /\ DOMAIN reply.json.errors = FailingFields(body)
    /\ \A f \in DOMAIN reply.json.errors : reply.json.errors[f] \in ServerMessages[f]

\* the answer of POST /api/profile to a body whose fields all pass
SavedShape(body, reply) ==
    /\ reply.status = StatusOk
    /\ reply.json.ok
    /\ "errors" \notin DOMAIN reply.json
    /\ DOMAIN reply.json.saved = {"name", "email", "commentSanitized"}
    /\ LET saved == reply.json.saved
       IN  /\ saved.name = serverCleanText(Coalesce(body.name, Str(<<>>)))
           /\ Normalized(saved.name) /\ NameText(saved.name)
           /\ saved.email = toLowerCase(serverCleanText(Coalesce(body.email, Str(<<>>))))
           /\ Normalized(saved.email) /\ LowerCased(saved.email) /\ EmailShape(saved.email)
           /\ saved.commentSanitized
                 = sanitizeCommentHtml(CommentString(Coalesce(body.comment, Str(<<>>))))
           /\ AllowListOnly(saved.commentSanitized)
           /\ body.comment = Str(ScriptThenBold) =>
                 saved.commentSanitized = <<Open("b", {}), Chr("hi"), Close("b")>>

\* C13: POST /api/profile normalizes, validates and then sanitizes, and answers
\* in one of two ways: 400 with { ok: false, errors } naming each failing field
\* with its message, nothing sanitized nor saved; or { ok: true, saved } with the
\* normalized name, the normalized lower-cased email and the sanitizer's output
\* for the comment.
C13_ProfileAnswersOneOfTwoShapes ==
    /\ [](fn = "profile" =>
            IF FailingFields(arg) # {} THEN RefusedShape(arg, ret) ELSE SavedShape(arg, ret))
    /\ [][fn' = "profile" =>
            IF FailingFields(arg') # {}
            THEN serverSanitized' = serverSanitized
            ELSE serverSanitized'
                   = serverSanitized
                       \cup {CommentString(Coalesce(arg'.comment, Str(<<>>)))}
         ]_vars

C13_Witness ==
    /\ fn = "profile"
    /\ arg = Json(Str(AnaLopez), Str(AnaMailCom), Str(ScriptThenBold))
    /\ ret.status = StatusOk
    /\ ret.json.saved
         = [name |-> <<"A","n","a"," ","L","ó","p","e","z">>,
            email |-> <<"a","n","a","@","m","a","i","l",".","c","o","m">>,
            commentSanitized |-> <<Open("b", {}), Chr("hi"), Close("b")>>]
    /\ ScriptThenBold \in serverSanitized

\* nothing in html runs code: no element but those of the page's template and of
\* the sanitizer's list, no event-handler, style or src attribute, no javascript:
NoActiveContent(html) ==
    \A i \in DOMAIN html :
        html[i].k = "open" =>
            /\ html[i].tag \in AllowedTags \cup {"div"}
            /\ \A a \in html[i].attrs :
                  /\ a.name \in {"href", "target", "rel", "class", "data-x", "aria-label"}
                  /\ a.scheme # "javascript"

\* C14: in the submit handler nothing typed by the user or sent by the server
\* reaches innerHTML or insertAdjacentHTML unprocessed: the preview shows the
\* name and the email as the literal text of their values (they were escaped),
\* the comment as the sanitizer returned it, the server's answer or error as
\* the literal text of its JSON; the raw values are shown through textContent.
C14_NothingUnprocessedReachesHtml ==
    /\ [](NoActiveContent(safePreview))
    /\ [][/\ (fn' = "submit" /\ ret'.ok) =>
                LET n == cleanText(Str(arg'.name))
                    e == toLowerCase(cleanText(Str(arg'.email)))
                IN  /\ arg'.comment \in clientSanitized'
                    /\ safePreview'
                         = PreviewHtml(n, e,
                                       ParseHtml(sanitizeUserHtml(arg'.comment)))
                    /\ escapedPreview' = EscapedText(n, e, arg'.comment)
          /\ fn' = "deliver" =>
                safePreview'
                  = safePreview
                      \o ServerHtml(IF arg'.status = StatusOk THEN " Guardado" ELSE "Error",
                                    stringify(arg'.json))
         ]_vars

C14_Witness ==
    /\ fn = "deliver"
    /\ arg.status = StatusOk
    /\ arg.json.saved.email = <<"<","b",">","@","c",".","c","c">>
    /\ arg.json.saved.commentSanitized = <<Open("b", {}), Chr("hi"), Close("b")>>
    /\ \E i \in DOMAIN safePreview :
          /\ i + 2 <= Len(safePreview)
          /\ SubSeq(safePreview, i, i + 2) = <<Chr("<"), Chr("b"), Chr(">")>>

\* C15: the client's validators and the server's validateProfile decide alike:
\* on the texts of a form they accept or refuse the same fields and give the
\* same normalized name and email; so the server accepts every payload the
\* submit handler sends, never answers it with 400, and saves its name and its
\* email unchanged.
C15_ClientAndServerAgree ==
    /\ fn = "submit" =>
          LET vName == validateName(Str(arg.name))
              vEmail == validateEmail(Str(arg.email))
              vComment == validateComment(Str(arg.comment))
              server == validateProfile(Json(Str(arg.name), Str(arg.email),
                                             Str(arg.comment)))
          IN  /\ vName.ok = ("name" \notin DOMAIN server.errors)
              /\ vEmail.ok = ("email" \notin DOMAIN server.errors)
              /\ vComment.ok = ("comment" \notin DOMAIN server.errors)
              /\ (errName = "") = ("name" \notin DOMAIN server.errors)
              /\ (errEmail = "") = ("email" \notin DOMAIN server.errors)
              /\ (errComment = "") = ("comment" \notin DOMAIN server.errors)
              /\ vName.value = server.cleaned.name
              /\ vEmail.value = server.cleaned.email
              /\ vComment.value = server.cleaned.comment
              /\ ret.ok = server.ok
    /\ \A i \in DOMAIN response :
          (response[i].to = "client" /\ "ok" \in DOMAIN response[i].json) =>
              /\ response[i].status = StatusOk
              /\ response[i].json.ok
              /\ response[i].json.saved.name = response[i].body.name.s
              /\ response[i].json.saved.email = response[i].body.email.s

C15_Witness ==
    /\ fn = "profile"
    /\ rawName = <<" ","A","ñ"," ","\t","Ü">>
    /\ \E i \in DOMAIN response :
          /\ response[i].to = "client"
          /\ response[i].status = StatusOk
          /\ response[i].body.name = Str(<<"A","ñ"," ","Ü">>)
          /\ response[i].json.saved.name = <<"A","ñ"," ","Ü">>
          /\ response[i].json.saved.email = <<"<","b",">","@","c",".","c","c">>

====
